---- MODULE Spec2Model ----
(***************************************************************************)
(* Goldfish: a Connect-Four board (src/game.py, class C4Board) and its     *)
(* negamax engine (src/engine.py, class C4Engine).                         *)
(*                                                                         *)
(* A column is a sequence of BOOLEAN, bottom first: FALSE is a piece of    *)
(* Player 1, TRUE a piece of Player 2 (game.py:11-14).  Python indexes     *)
(* from 0, TLA+ from 1: b[i + 1] is Python's b[i].  A string is a sequence *)
(* of one-character strings.  A Python exception is an outcome: every      *)
(* operation yields the name of the exception it raised, or "none".        *)
(***************************************************************************)
EXTENDS Integers, Sequences, FiniteSets, TLC

VARIABLES
    size,         \* C4Board.size = <<cols, rows>>
    connect_num,  \* C4Board.connect_num
    board,        \* C4Board._board
    turn,         \* C4Board._turn: FALSE = Player 1 to move
    result,       \* C4Board._result: 0 none, 1 draw, 2 P1 win, 3 P2 win
    op,           \* the last call made on the board or the engine
    ret,          \* what it returned: "True", "False", "None"
    raised,       \* the exception it raised, or "none"
    ttable,       \* C4Engine.ttable: FEN string -> value
    PLY_LIMIT,    \* C4Engine.PLY_LIMIT
    pc,           \* "idle", or "search" while a bestmoves call is running
    currfen,      \* bestmoves: the string of the board it was called on
    todo,         \* bestmoves: the moves of its loop not yet finished
    evals,        \* bestmoves: column -> value
    indicies,     \* bestmoves: the list it returned
    stack,        \* the negamax calls in progress, the outermost first
    calls,        \* how many times bestmoves was called
    at_call       \* the board's fields as the last bestmoves call found them

bvars == <<size, connect_num, board, turn, result>>
evars == <<ttable, PLY_LIMIT, pc, currfen, todo, evals, indicies, stack, calls,
           at_call>>
vars == <<size, connect_num, board, turn, result, op, ret, raised,
          ttable, PLY_LIMIT, pc, currfen, todo, evals, indicies, stack, calls,
          at_call>>

-----------------------------------------------------------------------------
(* Python lists *)

\* s[k] of a Python list is defined for -len(s) <= k < len(s)
PyInRange(s, k) == IF k >= 0 THEN k < Len(s) ELSE -k <= Len(s)

PyGet(s, k) == IF k >= 0 THEN s[k + 1] ELSE s[Len(s) + k + 1]

Reverse(s) == [k \in 1..Len(s) |-> s[Len(s) + 1 - k]]

\* the least element of a non-empty set of pairs, in the order of two nested loops
LexLess(a, b) == a[1] < b[1] \/ (a[1] = b[1] /\ a[2] < b[2])

LexMin(S) == CHOOSE c \in S : \A d \in S : d = c \/ LexLess(c, d)

-----------------------------------------------------------------------------
(* C4Board.check_result *)

\* the literal 4 of the run tests: offsets 0, +1, +2, +3 of game.py:247-251
RunOffsets == 0..3

\* the outcome of one test: its value, or the exception that ended it
Miss == [exc |-> "none", val |-> 0]
Hit(value) == [exc |-> "none", val |-> value]
Raise(name) == [exc |-> name, val |-> 0]

\* 3 if cell else 2 if cell == False else 0
WinnerOf(cell) == IF cell THEN 3 ELSE 2

\* The k-th length guard of a diagonal or row test, len(self._board[i + k]) > j + k*dj:
\* "ok", "miss" (the guard is false), or "IndexError" (no column i + k).
GuardAt(b, i, j, dj, k) ==
    IF i + k >= Len(b) THEN "IndexError"
    ELSE IF Len(b[i + k + 1]) > j + k * dj THEN "ok" ELSE "miss"

\* The k-th link of the chained comparison, cell(k - 1) == cell(k): reading cell k
\* raises IndexError when the index is outside the column (a negative index counts
\* from the top of the column).  Cell k - 1 was read by the link before: when that
\* read raised, this link is not reached and its value here is not used.
LinkAt(b, i, j, di, dj, k) ==
    IF ~PyInRange(b[i + k * di + 1], j + k * dj) THEN "IndexError"
    ELSE IF ~PyInRange(b[i + (k - 1) * di + 1], j + (k - 1) * dj) THEN "IndexError"
    ELSE IF PyGet(b[i + (k - 1) * di + 1], j + (k - 1) * dj)
            = PyGet(b[i + k * di + 1], j + k * dj) THEN "ok" ELSE "miss"

\* `and` and the chained == stop at the first operand that is false or raises
\* tests[k] being the k-th operand
FirstNotOk(tests) ==
    LET bad == {k \in DOMAIN tests : tests[k] # "ok"}
    IN  IF bad = {} THEN "ok"
        ELSE tests[CHOOSE k \in bad : \A m \in bad : k <= m]

ChainAt(b, i, j, di, dj) ==
    LET links == FirstNotOk([k \in RunOffsets \ {0} |-> LinkAt(b, i, j, di, dj, k)])
    IN  IF links = "ok" THEN Hit(WinnerOf(PyGet(b[i + 1], j)))
        ELSE IF links = "miss" THEN Miss ELSE Raise(links)

\* the if of game.py:246-251, 262-267, 279-284: four length guards, then the chain
LineAt(b, i, j, dj) ==
    LET guards == FirstNotOk([k \in RunOffsets |-> GuardAt(b, i, j, dj, k)])
    IN  IF guards = "ok" THEN ChainAt(b, i, j, 1, dj)
        ELSE IF guards = "miss" THEN Miss ELSE Raise(guards)

\* The candidates of one `for i ... for j ...` scan, as pairs in loop order; the
\* pair <<i, -1>> stands for the inner loop's header, which reads self._board[i].
Header(i) == <<i, -1>>

\* for i in range(self.size[0] - self.connect_num + 1)   game.py:242, 258, 275
StartCols(sz, cn) == 0..(sz[1] - cn)

\* for j in range(len(self._board[i]) - self.connect_num + 1)      game.py:244
RisingRows(b, cn, i) == 0..(Len(b[i + 1]) - cn)

\* for j in range(self.connect_num - 1, len(self._board[i]))       game.py:260
FallingRows(b, cn, i) == (cn - 1)..(Len(b[i + 1]) - 1)

\* for j in range(len(self._board[i]))                              game.py:277
RowRows(b, cn, i) == 0..(Len(b[i + 1]) - 1)

\* the inner loop of the scan whose rows step by dj: +1 rising, -1 falling, 0 row
ScanRows(b, cn, i, dj) ==
    IF dj = 1 THEN RisingRows(b, cn, i)
    ELSE IF dj = -1 THEN FallingRows(b, cn, i)
    ELSE RowRows(b, cn, i)

ScanCands(b, sz, cn, dj) ==
    {Header(i) : i \in StartCols(sz, cn)}
    \cup UNION {{<<i, j>> : j \in ScanRows(b, cn, i, dj)} :
                    i \in {c \in StartCols(sz, cn) : c < Len(b)}}

\* the first candidate, in loop order, that returns or raises
\* outs[c] being what the candidate c does
FirstOutcome(outs) ==
    LET live == {c \in DOMAIN outs : outs[c] # Miss}
    IN  IF live = {} THEN Miss ELSE outs[LexMin(live)]

\* what one candidate of a scan does: the header reads self._board[i], a pair
\* <<i, j>> runs the test
ScanOut(b, c, dj) ==
    IF c[2] = -1
    THEN (IF c[1] >= Len(b) THEN Raise("IndexError") ELSE Miss)
    ELSE LineAt(b, c[1], c[2], dj)

Scan(b, sz, cn, dj) ==
    FirstOutcome([c \in ScanCands(b, sz, cn, dj) |-> ScanOut(b, c, dj)])

\* game.py:242-255
RisingScan(b, sz, cn) == Scan(b, sz, cn, 1)

\* game.py:258-271
FallingScan(b, sz, cn) == Scan(b, sz, cn, -1)

\* game.py:275-289
RowScan(b, sz, cn) == Scan(b, sz, cn, 0)

\* game.py:293-302
ColumnScan(b, cn) ==
    LET cands == UNION {{<<col, piece>> : piece \in 0..(Len(b[col + 1]) - cn)} :
                          col \in {c \in 0..(Len(b) - 1) : Len(b[c + 1]) >= cn}}
    IN  FirstOutcome([c \in cands |-> ChainAt(b, c[1], c[2], 0, 1)])

\* all(len(col) == self.size[1] for col in self._board)            game.py:232
AllFull(b, sz) == \A c \in 1..Len(b) : Len(b[c]) = sz[2]

\* the first of the scans, in the order they are written, that returns or raises
FirstScan(outs) ==
    IF \A k \in 1..Len(outs) : outs[k] = Miss THEN Miss
    ELSE outs[CHOOSE k \in 1..Len(outs) :
                  outs[k] # Miss /\ \A m \in 1..(k - 1) : outs[m] = Miss]

\* check_result: the value it stores in _result (val), or the exception it raises.
\* A full board is a draw before any run is looked for; with no run, 0.
check_result(b, sz, cn) ==
    IF AllFull(b, sz) THEN Hit(1)
    ELSE FirstScan(<<RisingScan(b, sz, cn), FallingScan(b, sz, cn),
                     RowScan(b, sz, cn), ColumnScan(b, cn)>>)

-----------------------------------------------------------------------------
(* C4Board: moves *)

\* what a method leaves behind: the board's fields, its return value, its exception
Outcome(b, t, r, value, exc) ==
    [board |-> b, turn |-> t, result |-> r, ret |-> value, exc |-> exc]

\* game.py:57-59: the piece is dropped and the turn changed; check_result sets the
\* result, or raises and leaves it
Stored(nb, nt, r, cr) ==
    IF cr.exc # "none" THEN Outcome(nb, nt, r, "None", cr.exc)
    ELSE Outcome(nb, nt, cr.val, "True", "none")

Checked(nb, nt, r, sz, cn) == Stored(nb, nt, r, check_result(nb, sz, cn))

\* make_move_at_column without its test for a full column
make_move_at_column_NoFullTest(b, t, r, sz, cn, col) ==
    IF col < 0 \/ col >= sz[1] THEN Outcome(b, t, r, "False", "none")
    ELSE IF col >= Len(b) THEN Outcome(b, t, r, "None", "IndexError")
    ELSE Checked([b EXCEPT ![col + 1] = Append(@, t)], ~t, r, sz, cn)

\* make_move_at_column without its change of turns
make_move_at_column_NoFlip(b, t, r, sz, cn, col) ==
    IF col < 0 \/ col >= sz[1] THEN Outcome(b, t, r, "False", "none")
    ELSE IF col >= Len(b) THEN Outcome(b, t, r, "None", "IndexError")
    ELSE IF Len(b[col + 1]) = sz[2] THEN Outcome(b, t, r, "False", "none")
    ELSE Checked([b EXCEPT ![col + 1] = Append(@, t)], t, r, sz, cn)

\* make_move_at_column(col)                                        game.py:35-59
make_move_at_column(b, t, r, sz, cn, col) ==
    IF col < 0 \/ col >= sz[1] THEN Outcome(b, t, r, "False", "none")
    ELSE IF col >= Len(b) THEN Outcome(b, t, r, "None", "IndexError")
    ELSE IF Len(b[col + 1]) = sz[2] THEN Outcome(b, t, r, "False", "none")
    ELSE Checked([b EXCEPT ![col + 1] = Append(@, t)], ~t, r, sz, cn)

\* delete_move_at_column without its change of turns
delete_move_at_column_NoFlip(b, t, r, col) ==
    IF col >= Len(b) THEN Outcome(b, t, r, "None", "IndexError")
    ELSE IF Len(b[col + 1]) = 0 THEN Outcome(b, t, r, "False", "none")
    ELSE Outcome([b EXCEPT ![col + 1] = SubSeq(@, 1, Len(@) - 1)], t, 0,
                 "True", "none")

\* delete_move_at_column(col), col >= 0                            game.py:61-84
delete_move_at_column(b, t, r, col) ==
    IF col >= Len(b) THEN Outcome(b, t, r, "None", "IndexError")
    ELSE IF Len(b[col + 1]) = 0 THEN Outcome(b, t, r, "False", "none")
    ELSE Outcome([b EXCEPT ![col + 1] = SubSeq(@, 1, Len(@) - 1)], ~t, 0,
                 "True", "none")

\* all_available_moves(): the columns, ascending, or IndexError    game.py:319-326
all_available_moves(b, sz) ==
    IF sz[1] > Len(b) THEN [exc |-> "IndexError", val |-> <<>>]
    ELSE LET free == {i \in 0..(sz[1] - 1) : Len(b[i + 1]) < sz[2]}
             Rank(i) == Cardinality({m \in free : m < i}) + 1
         IN  [exc |-> "none",
              val |-> [k \in 1..Cardinality(free) |-> CHOOSE i \in free : Rank(i) = k]]

-----------------------------------------------------------------------------
(* C4Board: the FEN string *)

\* " ".join(chunks)
RECURSIVE Join(_)
Join(chunks) ==
    IF Len(chunks) = 0 THEN <<>>
    ELSE IF Len(chunks) = 1 THEN chunks[1]
    ELSE chunks[1] \o <<" ">> \o Join(Tail(chunks))

\* get_fen without its chunks.reverse()
get_fen_NoReverse(b, t) ==
    LET Chunk(col) == [k \in 1..Len(col) |-> IF col[k] THEN "2" ELSE "1"]
        chunks == [c \in 1..Len(b) |-> Chunk(b[c])]
    IN  Join(chunks) \o <<" ">> \o <<IF t THEN "2" ELSE "1">>

\* get_fen()                                                     game.py:161-203
get_fen(b, t) ==
    LET Chunk(col) == [k \in 1..Len(col) |-> IF col[k] THEN "2" ELSE "1"]
        chunks == Reverse([c \in 1..Len(b) |-> Chunk(b[c])])
    IN  Join(chunks) \o <<" ">> \o <<IF t THEN "2" ELSE "1">>

\* s.split(" "): the pieces between the spaces, one more than there are spaces
Split(s) ==
    LET spaces == {p \in 1..Len(s) : s[p] = " "}
        n == Cardinality(spaces) + 1
        SpaceAt(k) == IF k = 0 THEN 0
                      ELSE IF k = n THEN Len(s) + 1
                      ELSE CHOOSE p \in spaces :
                               Cardinality({q \in spaces : q <= p}) = k
    IN  [k \in 1..n |-> SubSeq(s, SpaceAt(k - 1) + 1, SpaceAt(k) - 1)]

\* the inner loop of game.py:152-156: '1' and '2' become pieces, the rest is skipped
ParseChunk(chunk) ==
    LET kept == SelectSeq(chunk, LAMBDA ch : ch \in {"1", "2"})
    IN  [k \in 1..Len(kept) |-> kept[k] = "2"]

\* the characters int() takes as a digit
Digits == {"0", "1", "2", "3", "4", "5", "6", "7", "8", "9"}

\* set_position without its self._board.reverse()
set_position_NoReverse(b, t, r, fen) ==
    IF Len(fen) = 0 THEN Outcome(<<>>, t, r, "None", "IndexError")
    ELSE IF fen[Len(fen)] \notin Digits THEN Outcome(<<>>, t, r, "None", "ValueError")
    ELSE LET chunks == Split(SubSeq(fen, 1, Len(fen) - 2))
         IN  Outcome([k \in 1..Len(chunks) |-> ParseChunk(chunks[k])],
                     fen[Len(fen)] = "2", r, "None", "none")

\* set_position(fen)                                             game.py:107-159
set_position(b, t, r, fen) ==
    IF Len(fen) = 0 THEN Outcome(<<>>, t, r, "None", "IndexError")
    ELSE IF fen[Len(fen)] \notin Digits THEN Outcome(<<>>, t, r, "None", "ValueError")
    ELSE LET chunks == Split(SubSeq(fen, 1, Len(fen) - 2))
         IN  Outcome(Reverse([k \in 1..Len(chunks) |-> ParseChunk(chunks[k])]),
                     fen[Len(fen)] = "2", r, "None", "none")

-----------------------------------------------------------------------------
(* The board as a state machine *)

\* <<cols, rows, connect_num>> of the boards played to the last cell; a new C4Board
\* is 7 by 6 with connect_num 4 (game.py:6)
Configs == {<<2, 4, 4>>, <<3, 4, 4>>, <<4, 2, 4>>}

\* the board on which all four line families fit, played up to MaxPieces pieces
WideConfigs == {<<4, 4, 4>>}

\* in the bounded specifications a board holding this many pieces takes no more
MaxPieces == 10

RECURSIVE Pieces(_)
Pieces(b) == IF Len(b) = 0 THEN 0 ELSE Len(Head(b)) + Pieces(Tail(b))

\* C4Board.__init__                                                game.py:6-21
InitBoard(cfgs) ==
    /\ \E cfg \in cfgs :
          /\ size = <<cfg[1], cfg[2]>>
          /\ connect_num = cfg[3]
          /\ board = [c \in 1..cfg[1] |-> <<>>]
    /\ turn = FALSE
    /\ result = 0
    /\ op = <<"__init__", 0>>
    /\ ret = "None"
    /\ raised = "none"

\* a dict without keys
EmptyMap == [k \in {} |-> 0]

\* d[key] = value
Put(d, key, value) ==
    [k \in DOMAIN d \cup {key} |-> IF k = key THEN value ELSE d[k]]

\* self.PLY_LIMIT = 10                                          engine.py:22
DefaultPlyLimit == 10

\* C4Engine.__init__, before any call of bestmoves              engine.py:15-22
InitEngine(limits) ==
    /\ ttable = EmptyMap
    /\ PLY_LIMIT \in limits
    /\ pc = "idle"
    /\ currfen = <<>>
    /\ todo = <<>>
    /\ evals = EmptyMap
    /\ indicies = <<>>
    /\ stack = <<>>
    /\ calls = 0
    /\ at_call = [board |-> <<>>, turn |-> FALSE, result |-> 0]

\* the board takes on what a method left behind
Becomes(out, name, arg) ==
    /\ board' = out.board
    /\ turn' = out.turn
    /\ result' = out.result
    /\ ret' = out.ret
    /\ raised' = out.exc
    /\ op' = <<name, arg>>
    /\ UNCHANGED <<size, connect_num>>

MakeMove(col) ==
    /\ pc = "idle"
    /\ Becomes(make_move_at_column(board, turn, result, size, connect_num, col),
               "make_move_at_column", col)
    /\ UNCHANGED evars

\* "provided assuming that it will be only be called with the correct column
\* number" (game.py:66): the column of the move just made
DeleteMove(col) ==
    /\ op[1] = "make_move_at_column"
    /\ op[2] = col
    /\ ret = "True"
    /\ Becomes(delete_move_at_column(board, turn, result, col),
               "delete_move_at_column", col)
    /\ UNCHANGED evars

SetPosition(fen) ==
    /\ pc = "idle"
    /\ Becomes(set_position(board, turn, result, fen), "set_position", fen)
    /\ UNCHANGED evars

\* the string of a new game
StartFen == get_fen([c \in 1..size[1] |-> <<>>], FALSE)

\* the columns a caller passes: every column of the board, and one off either edge
Cols == -1..size[1]

Init == InitBoard(Configs) /\ InitEngine({DefaultPlyLimit})

\* set_position with the string of a new game, or with the string get_fen gives
\* for the board as it stands
Next ==
    \/ \E col \in Cols : MakeMove(col)
    \/ \E col \in Cols : DeleteMove(col)
    \/ SetPosition(StartFen)
    \/ SetPosition(get_fen(board, turn))

Spec == Init /\ [][Next]_vars

InitWide == InitBoard(WideConfigs) /\ InitEngine({DefaultPlyLimit})

NextWide ==
    \/ \E col \in Cols : Pieces(board) < MaxPieces /\ MakeMove(col)
    \/ \E col \in Cols : DeleteMove(col)
    \/ SetPosition(StartFen)

SpecWide == InitWide /\ [][NextWide]_vars

\* boards whose connect_num is not 4: below it, above it, and larger than the board
RunConfigs == {<<2, 2, 2>>, <<3, 3, 3>>, <<5, 2, 5>>, <<2, 2, 3>>}

InitRun == InitBoard(RunConfigs) /\ InitEngine({DefaultPlyLimit})

SpecRun == InitRun /\ [][Next]_vars

\* the board that takes the strings a user types after `setpos` (play.py:76-79)
DecodeConfigs == {<<2, 2, 4>>}

\* the characters of those strings: the two pieces, another digit, the separator
FenAlphabet == {"1", "2", "3", " "}

\* the longest string typed
MaxFenLen == 5

FenInputs == UNION {[1..n -> FenAlphabet] : n \in 0..MaxFenLen}

InitDecode == InitBoard(DecodeConfigs) /\ InitEngine({DefaultPlyLimit})

\* moves are made while the board holds fewer pieces than it has cells
NextDecode ==
    \/ \E col \in Cols : Pieces(board) < size[1] * size[2] /\ MakeMove(col)
    \/ \E fen \in FenInputs : SetPosition(fen)

SpecDecode == InitDecode /\ [][NextDecode]_vars

-----------------------------------------------------------------------------
(* C4Engine *)

Max(a, b) == IF a >= b THEN a ELSE b

\* evaluate_position scoring a win 1000
evaluate_position_Unscaled(r) ==
    IF r = 2 THEN 1000 ELSE IF r = 3 THEN -1000 ELSE 0

\* evaluate_position(board)                                    engine.py:102-119
evaluate_position(r) ==
    IF r = 2 THEN 100 ELSE IF r = 3 THEN -100 ELSE 0

\* One call of negamax.  st = "loop": it is in its for loop, moves are the moves
\* not yet tried, fen is the currfen of the move under way; st = "done": it has
\* returned value.  entry is the string of the board the call was made on.
Frame(alpha, beta, ply, moves, st, value) ==
    [alpha |-> alpha, beta |-> beta, ply |-> ply, moves |-> moves,
     best_value |-> -100, fen |-> <<>>, st |-> st, value |-> value,
     entry |-> <<>>]

Returned(alpha, beta, ply, value) == Frame(alpha, beta, ply, <<>>, "done", value)

\* The end of negamax, engine.py:96-99, on the board b, t: the table takes
\* best_value under the board's string, and the call returns it.
Finish(f, b, t, tt) ==
    [frame |-> [f EXCEPT !.st = "done", !.value = f.best_value, !.moves = <<>>],
     tt |-> Put(tt, get_fen(b, t), f.best_value),
     exc |-> "none"]

\* engine.py:80-82, moves being all_available_moves(): the loop is entered, or
\* with no move it is skipped
EnterLoop(f, moves, b, t, tt) ==
    IF moves.exc # "none" THEN [frame |-> f, tt |-> tt, exc |-> moves.exc]
    ELSE IF moves.val = <<>> THEN Finish(f, b, t, tt)
    ELSE [frame |-> [f EXCEPT !.moves = moves.val], tt |-> tt, exc |-> "none"]

\* negamax without the early return of engine.py:74-78: the table is never read
Lookup_NoTable(key, b, t, sz, alpha, beta, ply, tt) ==
    EnterLoop(Frame(alpha, beta, ply, <<>>, "loop", 0),
              all_available_moves(b, sz), b, t, tt)

\* engine.py:74-78, key being board.get_fen()
Lookup(key, b, t, sz, alpha, beta, ply, tt) ==
    IF key \in DOMAIN tt
    THEN [frame |-> Returned(alpha, beta, ply, tt[key]), tt |-> tt, exc |-> "none"]
    ELSE EnterLoop(Frame(alpha, beta, ply, <<>>, "loop", 0),
                   all_available_moves(b, sz), b, t, tt)

\* negamax(board, alpha, beta, ply) up to its loop, engine.py:64-82: the call
\* returns at once, or it enters the loop over the available moves.
Enter(b, t, r, sz, alpha, beta, ply, tt, limit) ==
    IF ply >= limit
    THEN [frame |-> Returned(alpha, beta, ply, evaluate_position(r)),
          tt |-> tt, exc |-> "none"]
    ELSE IF r >= 2
    THEN [frame |-> Returned(alpha, beta, ply, -100), tt |-> tt, exc |-> "none"]
    ELSE IF r = 1
    THEN [frame |-> Returned(alpha, beta, ply, 0), tt |-> tt, exc |-> "none"]
    ELSE Lookup(get_fen(b, t), b, t, sz, alpha, beta, ply, tt)

\* an exception leaves bestmoves: the board stays as the last method left it
Abort(out, exc) ==
    /\ board' = out.board
    /\ turn' = out.turn
    /\ result' = out.result
    /\ raised' = exc
    /\ ret' = "None"
    /\ pc' = "idle"
    /\ stack' = <<>>
    /\ UNCHANGED <<size, connect_num, op, ttable, PLY_LIMIT, currfen, todo, evals,
                   indicies, calls, at_call>>

\* the board after a method called from the search
BoardBecomes(out) ==
    /\ board' = out.board
    /\ turn' = out.turn
    /\ result' = out.result
    /\ UNCHANGED <<size, connect_num, op, ret, raised>>

\* how many calls of bestmoves a behaviour holds
MaxCalls == 2

\* engine.py:29-35, moves being all_available_moves(): with no move to try the
\* loop is skipped and max() of engine.py:47 raises ValueError
Started(moves) ==
    /\ todo' = moves.val
    /\ IF moves.exc # "none" \/ moves.val = <<>>
       THEN /\ raised' = (IF moves.exc # "none" THEN moves.exc ELSE "ValueError")
            /\ ret' = "None"
            /\ pc' = "idle"
       ELSE /\ raised' = "none"
            /\ ret' = "running"
            /\ pc' = "search"

\* bestmoves(board): the snapshot, and the moves of its loop    engine.py:29-35
BestmovesCall ==
    /\ pc = "idle"
    /\ calls < MaxCalls
    /\ calls' = calls + 1
    /\ op' = <<"bestmoves", 0>>
    /\ currfen' = get_fen(board, turn)
    /\ at_call' = [board |-> board, turn |-> turn, result |-> result]
    /\ evals' = EmptyMap
    /\ Started(all_available_moves(board, size))
    /\ UNCHANGED <<bvars, ttable, PLY_LIMIT, indicies, stack>>

\* the call of negamax made, ent being what it did up to its loop: it is pushed on
\* the calls below it
Pushed(out, ent, below) ==
    IF ent.exc # "none" THEN Abort(out, ent.exc)
    ELSE /\ BoardBecomes(out)
         /\ stack' = Append(below, ent.frame)
         /\ ttable' = ent.tt
         /\ UNCHANGED <<PLY_LIMIT, pc, currfen, todo, evals, indicies, calls,
                        at_call>>

\* the call ent was made on the board whose string is fen
Entered(ent, fen) == [ent EXCEPT !.frame.entry = fen]

\* the move made, out being what make_move_at_column left: negamax is called with
\* the window alpha, beta
Moved(out, alpha, beta, ply, below) ==
    IF out.exc # "none" THEN Abort(out, out.exc)
    ELSE Pushed(out, Entered(Enter(out.board, out.turn, out.result, size, alpha, beta,
                                   ply, ttable, PLY_LIMIT),
                             get_fen(out.board, out.turn)), below)

\* engine.py:36-38: the next move of bestmoves is made and negamax is called
BestmovesTry ==
    /\ pc = "search"
    /\ stack = <<>>
    /\ todo # <<>>
    /\ Moved(make_move_at_column(board, turn, result, size, connect_num, Head(todo)),
             -100, 100, 0, <<>>)

\* the caller's frame while its move is under way
Calling(f, fen) == [f EXCEPT !.fen = fen, !.moves = Tail(f.moves)]

\* engine.py:85-87: the next move of a negamax loop is made and negamax is called
CallFrom(f) ==
    Moved(make_move_at_column(board, turn, result, size, connect_num, Head(f.moves)),
          -f.beta, -f.alpha, f.ply + 1,
          [stack EXCEPT ![Len(stack)] = Calling(f, get_fen(board, turn))])

NegamaxCall ==
    /\ pc = "search"
    /\ stack # <<>>
    /\ stack[Len(stack)].st = "loop"
    /\ CallFrom(stack[Len(stack)])

\* engine.py:90-99: the caller g has taken the value; it ends its loop at a cutoff
\* or after its last move, and goes on otherwise
Continue(g, b, t, tt) ==
    IF g.alpha >= g.beta \/ g.moves = <<>> THEN Finish(g, b, t, tt)
    ELSE [frame |-> g, tt |-> tt, exc |-> "none"]

\* engine.py:90-91
Taken(f, value) ==
    [f EXCEPT !.best_value = Max(f.best_value, value), !.alpha = Max(f.alpha, value)]

\* the board restored, out being what set_position left
Restored(out, f, value, below) ==
    IF out.exc # "none" THEN Abort(out, out.exc)
    ELSE Pushed(out, Continue(Taken(f, value), out.board, out.turn, ttable), below)

\* engine.py:87-99: a call made from a negamax loop returns; the caller restores
\* the board, takes the value, and goes on with its loop or ends it
NegamaxReturn ==
    /\ pc = "search"
    /\ Len(stack) >= 2
    /\ stack[Len(stack)].st = "done"
    /\ Restored(set_position(board, turn, result, stack[Len(stack) - 1].fen),
                stack[Len(stack) - 1], -stack[Len(stack)].value,
                SubSeq(stack, 1, Len(stack) - 2))

\* engine.py:38-44, out being what set_position(currfen) left
TakenAtTop(out) ==
    IF out.exc # "none" THEN Abort(out, out.exc)
    ELSE /\ BoardBecomes(out)
         /\ stack' = <<>>
         /\ evals' = Put(evals, Head(todo), -stack[1].value)
         /\ todo' = Tail(todo)
         /\ UNCHANGED <<ttable, PLY_LIMIT, pc, currfen, indicies, calls, at_call>>

\* engine.py:38-44: the call made from bestmoves returns
BestmovesTake ==
    /\ pc = "search"
    /\ Len(stack) = 1
    /\ stack[1].st = "done"
    /\ TakenAtTop(set_position(board, turn, result, currfen))

\* one key of evals alone whose value is the maximum, as evals.index(max) gives
BestOf_FirstOnly(ev) ==
    LET best == {c \in DOMAIN ev : \A d \in DOMAIN ev : ev[d] <= ev[c]}
    IN  <<CHOOSE c \in best : \A m \in best : c <= m>>

\* the keys of evals, ascending, whose value is the maximum     engine.py:47-50
BestOf(ev) ==
    LET max_eval == CHOOSE v \in {ev[c] : c \in DOMAIN ev} :
                        \A c \in DOMAIN ev : ev[c] <= v
        best == {c \in DOMAIN ev : ev[c] = max_eval}
        Rank(c) == Cardinality({m \in best : m < c}) + 1
    IN  [k \in 1..Cardinality(best) |-> CHOOSE c \in best : Rank(c) = k]

\* engine.py:47-55: bestmoves returns
BestmovesReturn ==
    /\ pc = "search"
    /\ stack = <<>>
    /\ todo = <<>>
    /\ indicies' = BestOf(evals)
    /\ ret' = "list"
    /\ pc' = "idle"
    /\ UNCHANGED <<bvars, op, raised, ttable, PLY_LIMIT, currfen, todo, evals, stack,
                   calls, at_call>>

\* the board and the ply limits the engine is run on
EngineConfigs == {<<2, 4, 4>>}
PlyLimits == {0, 1, 2, DefaultPlyLimit}

InitEngineSpec == InitBoard(EngineConfigs) /\ InitEngine(PlyLimits)

NextEngine ==
    \/ \E col \in 0..(size[1] - 1) : MakeMove(col)
    \/ BestmovesCall
    \/ BestmovesTry
    \/ NegamaxCall
    \/ NegamaxReturn
    \/ BestmovesTake
    \/ BestmovesReturn

SpecEngine == InitEngineSpec /\ [][NextEngine]_vars

\* the engine on boards whose connect_num is not 4
RunEngineConfigs == {<<2, 2, 2>>, <<3, 3, 3>>}

InitEngineRun == InitBoard(RunEngineConfigs) /\ InitEngine(PlyLimits)

SpecEngineRun == InitEngineRun /\ [][NextEngine]_vars

\* The engine on the 4 by 4 board, in one game: the moves of the game are made in
\* their order, and bestmoves is called at any point of it.
GameRecord == <<0, 1, 2, 3, 1, 2, 0, 2, 2, 0>>

DeepLimits == {3}

InitDeep == InitBoard(WideConfigs) /\ InitEngine(DeepLimits)

\* the next move of the game
RecordedMove(col) ==
    /\ Pieces(board) < Len(GameRecord)
    /\ col = GameRecord[Pieces(board) + 1]
    /\ MakeMove(col)

NextDeep ==
    \/ \E col \in 0..(size[1] - 1) : RecordedMove(col)
    \/ BestmovesCall
    \/ BestmovesTry
    \/ NegamaxCall
    \/ NegamaxReturn
    \/ BestmovesTake
    \/ BestmovesReturn

SpecDeep == InitDeep /\ [][NextDeep]_vars

\* A game on the 4 by 4 board: from the empty board, by make_move_at_column alone,
\* every move made while the result is 0, as run_game goes on only while
\* get_result() == 0 (play.py:63).
InitGame == InitBoard(WideConfigs) /\ InitEngine({DefaultPlyLimit})

\* a game is followed up to this many pieces
MaxGamePieces == 13

GameMove(col) ==
    /\ result = 0
    /\ Pieces(board) < MaxGamePieces
    /\ MakeMove(col)

NextGame == \E col \in 0..(size[1] - 1) : GameMove(col)

SpecGame == InitGame /\ [][NextGame]_vars

-----------------------------------------------------------------------------
(* What the claims speak of *)

Player1 == FALSE
Player2 == TRUE

Ongoing == 0
Draw == 1
WinOf(p) == IF p = Player2 THEN 3 ELSE 2

\* the four line families: row, column, rising diagonal, falling diagonal
Directions == {<<1, 0>>, <<0, 1>>, <<1, 1>>, <<1, -1>>}

\* cell (x, y) holds a piece of player p
Owns(b, p, x, y) ==
    /\ x >= 0 /\ x < Len(b)
    /\ y >= 0 /\ y < Len(b[x + 1])
    /\ b[x + 1][y + 1] = p

\* n cells of player p in direction d, the first at (x, y)
RunFrom(b, p, n, x, y, d) ==
    \A k \in 0..(n - 1) : Owns(b, p, x + k * d[1], y + k * d[2])

Rows(b) == UNION {0..(Len(b[c]) - 1) : c \in 1..Len(b)}

HasRun(b, p, n) ==
    \E x \in 0..(Len(b) - 1), y \in Rows(b), d \in Directions : RunFrom(b, p, n, x, y, d)

\* a run of n of player p in direction d through the cell (cx, cy)
RunThrough(b, p, n, cx, cy, d) ==
    \E k \in 0..(n - 1) : RunFrom(b, p, n, cx - k * d[1], cy - k * d[2], d)

NoRun(b, n) == ~HasRun(b, Player1, n) /\ ~HasRun(b, Player2, n)

\* this step is a call of make_move_at_column that dropped a piece
Dropped == op'[1] = "make_move_at_column" /\ board' # board

\* the column and the row of the piece this step dropped
DropCol == op'[2]
DropRow == Len(board'[op'[2] + 1]) - 1

-----------------------------------------------------------------------------
(* C1 *)

\* C1: with connect_num = 4 and the result Ongoing, a move that completes four
\* aligned pieces of the mover, in any line family, sets the result to the mover's
\* win.  Stated for a move made while nobody owns a run and that does not fill the
\* board, so that neither a stale result nor the draw test of C5 plays a part.
C1_FourInLineWins ==
    [][(/\ Dropped
        /\ connect_num = 4
        /\ result = Ongoing
        /\ NoRun(board, 4)
        /\ ~AllFull(board', size)
        /\ \E d \in Directions : RunThrough(board', turn, 4, DropCol, DropRow, d))
       => result' = WinOf(turn)]_vars

\* the same, of the rows, the columns and the falling diagonals alone
C1_ThreeFamiliesWin ==
    [][(/\ Dropped
        /\ connect_num = 4
        /\ result = Ongoing
        /\ NoRun(board, 4)
        /\ ~AllFull(board', size)
        /\ \E d \in Directions \ {<<1, 1>>} :
               RunThrough(board', turn, 4, DropCol, DropRow, d))
       => result' = WinOf(turn)]_vars

-----------------------------------------------------------------------------
(* C3 *)

\* C3: in every state reached by make_move_at_column, delete_move_at_column and
\* set_position, the cached _result is the result check_result computes from the
\* columns as they stand.
C3_ResultFollowsColumns ==
    result = check_result(board, size, connect_num).val

-----------------------------------------------------------------------------
(* C4 *)

\* C4: set_position(get_fen()) gives back the board: as many columns, the same
\* pieces in the same cells, the same turn, and raises nothing.
C4_RoundTrip ==
    LET out == set_position(board, turn, result, get_fen(board, turn))
    IN  /\ out.exc = "none"
        /\ Len(out.board) = size[1]
        /\ out.board = board
        /\ out.turn = turn

\* the board was set from its own string, with both edge columns empty and pieces
\* of both players between them
C4_Witness ==
    /\ op[1] = "set_position"
    /\ op[2] = get_fen(board, turn)
    /\ Len(board) = 3
    /\ board[1] = <<>> /\ board[3] = <<>>
    /\ \E k \in 1..Len(board[2]) : board[2][k] = Player2

-----------------------------------------------------------------------------
(* C5 *)

\* C5: after a move that dropped a piece, the result is Draw exactly when every
\* column is full and nobody owns a run of connect_num; a move that fills the last
\* cell and completes a run of the mover is the mover's win; a board that is not
\* full and holds no run is Ongoing.  Stated for a move made while the result is
\* Ongoing and nobody owns a run.
C5_DrawIffFullWithoutRun ==
    [][(/\ Dropped
        /\ result = Ongoing
        /\ NoRun(board, connect_num))
       => /\ result' = Draw <=> (AllFull(board', size) /\ NoRun(board', connect_num))
          /\ (AllFull(board', size) /\ HasRun(board', turn, connect_num))
                 => result' = WinOf(turn)
          /\ (~AllFull(board', size) /\ NoRun(board', connect_num))
                 => result' = Ongoing]_vars

-----------------------------------------------------------------------------
(* C9 *)

\* C9: with a connect_num other than 4, after a move that returned True the result
\* is a win of player X exactly when X owns connect_num aligned cells, and no win
\* is reported when connect_num exceeds both the column count and the row count.
\* Stated for a move made while the result is Ongoing and nobody owns a run, and
\* that does not fill the board.
C9_ConfiguredRunLength ==
    [][(/\ Dropped
        /\ ret' = "True"
        /\ connect_num # 4
        /\ result = Ongoing
        /\ NoRun(board, connect_num)
        /\ ~AllFull(board', size))
       => /\ \A p \in {Player1, Player2} :
                result' = WinOf(p) <=> HasRun(board', p, connect_num)
          /\ (connect_num > size[1] /\ connect_num > size[2])
                 => result' \notin {WinOf(Player1), WinOf(Player2)}]_vars

-----------------------------------------------------------------------------
(* C6 *)

\* the grammar <colToken> (' ' <colToken>)* ' ' <turnDigit>, with one token of '1'
\* and '2' for each of the board's columns
WellFormed(fen, cols) ==
    /\ Len(fen) >= 2
    /\ fen[Len(fen)] \in {"1", "2"}
    /\ fen[Len(fen) - 1] = " "
    /\ LET tokens == Split(SubSeq(fen, 1, Len(fen) - 2))
       IN  /\ Len(tokens) = cols
           /\ \A k \in 1..Len(tokens) : \A m \in 1..Len(tokens[k]) :
                  tokens[k][m] \in {"1", "2"}

\* C6: set_position of a malformed string fails with an error and leaves the
\* board's columns and turn as they were.  Any exception is taken for the error.
C6_MalformedRejected ==
    [][(op'[1] = "set_position" /\ ~WellFormed(op'[2], size[1]))
       => (raised' # "none" /\ board' = board /\ turn' = turn)]_vars

\* the part of C6 the code cannot fail by raising the wrong thing: no malformed
\* string is decoded without an error
C6_MalformedNotAccepted ==
    (op[1] = "set_position" /\ ~WellFormed(op[2], size[1])) => raised # "none"

-----------------------------------------------------------------------------
(* C2 *)

\* the columns that take a piece
LegalColumns(b) == {c \in 0..(Len(b) - 1) : Len(b[c + 1]) < size[2]}

\* bestmoves has returned its list
BestmovesReturned == op[1] = "bestmoves" /\ pc = "idle" /\ ret = "list"

\* C2: after bestmoves returns on a board with a legal move, the board's columns,
\* its turn and its result are what they were just before the call, in the first
\* call and in a repeated one.
C2_BoardUntouched ==
    (BestmovesReturned /\ LegalColumns(at_call.board) # {})
        => /\ board = at_call.board
           /\ turn = at_call.turn
           /\ result = at_call.result

\* the part of C2 that set_position(currfen) sees to: the columns and the turn
C2_ColumnsAndTurnRestored ==
    BestmovesReturned => (board = at_call.board /\ turn = at_call.turn)

-----------------------------------------------------------------------------
(* C7 *)

\* C7: bestmoves called on a board with no legal move, or whose result is a win
\* or a draw, ends with an error and returns no list.  Any exception is taken for
\* the error.
C7_TerminalRejected ==
    (/\ op[1] = "bestmoves"
     /\ pc = "idle"
     /\ (LegalColumns(at_call.board) = {} \/ at_call.result # Ongoing))
        => (raised # "none" /\ ret # "list")

-----------------------------------------------------------------------------
(* C8 *)

\* this step is a call of negamax, made after a move of the search
NegamaxCalled == pc = "search" /\ pc' = "search" /\ Len(stack') = Len(stack) + 1

\* C8: a call of negamax at any ply from 0 to PLY_LIMIT, on a position whose
\* result is the win of the player who just moved and completed a run, returns
\* -100, whichever player that is.
C8_WinIsLossForMover ==
    [][(/\ NegamaxCalled
        /\ stack'[Len(stack')].ply \in 0..PLY_LIMIT
        /\ ~HasRun(board, turn, connect_num)
        /\ HasRun(board', turn, connect_num)
        /\ result' = WinOf(turn))
       => (/\ stack'[Len(stack')].st = "done"
           /\ stack'[Len(stack')].value = -100)]_vars

\* the same below the ply limit, where negamax tests the result itself
C8_WinIsLossBelowLimit ==
    [][(/\ NegamaxCalled
        /\ stack'[Len(stack')].ply < PLY_LIMIT
        /\ ~HasRun(board, turn, connect_num)
        /\ HasRun(board', turn, connect_num)
        /\ result' = WinOf(turn))
       => (/\ stack'[Len(stack')].st = "done"
           /\ stack'[Len(stack')].value = -100)]_vars

-----------------------------------------------------------------------------
(* C10 *)

\* the columns of the list bestmoves returned
Returned_Columns == {indicies[k] : k \in 1..Len(indicies)}

\* C10: on a board with a legal move, bestmoves returns a list that is not empty,
\* names no column twice, and holds exactly the legal columns whose value is the
\* greatest of the values of the legal columns; evals holds a value for every
\* legal column and for no other.
C10_BestColumnsReturned ==
    (BestmovesReturned /\ LegalColumns(at_call.board) # {})
        => /\ DOMAIN evals = LegalColumns(at_call.board)
           /\ indicies # <<>>
           /\ Cardinality(Returned_Columns) = Len(indicies)
           /\ Returned_Columns \subseteq LegalColumns(at_call.board)
           /\ Returned_Columns =
                  {c \in LegalColumns(at_call.board) :
                       \A d \in LegalColumns(at_call.board) : evals[d] <= evals[c]}

\* bestmoves returned one of two legal columns, the other having a lesser value
C10_Witness ==
    /\ BestmovesReturned
    /\ Cardinality(LegalColumns(at_call.board)) = 2
    /\ Len(indicies) = 1
    /\ \E c \in LegalColumns(at_call.board) : evals[c] < evals[indicies[1]]

\* bestmoves returned two columns of the same value
C10_WitnessTie ==
    /\ BestmovesReturned
    /\ Len(indicies) = 2
    /\ evals[indicies[1]] = evals[indicies[2]]

-----------------------------------------------------------------------------
(* C11 *)

\* this step is a call of make_move_at_column
MoveCalled == op'[1] = "make_move_at_column"

\* the column col is outside the board, or holds as many pieces as there are rows
OutsideOrFull(b, col) ==
    IF col < 0 \/ col >= size[1] THEN TRUE
    ELSE Len(b[col + 1]) = size[2]

C11_WitnessOutside ==
    /\ op[1] = "make_move_at_column"
    /\ ret = "False"
    /\ op[2] \in {-1, size[1]}
    /\ Pieces(board) > 0

-----------------------------------------------------------------------------
(* C12 *)

\* C12: a make_move_at_column(c) that returns True puts one piece of the player
\* to move on top of column c, leaves the other columns and the lower cells of
\* column c as they were, and changes the turn.
C12_OnePieceOnTop ==
    [][(MoveCalled /\ ret' = "True")
       => (/\ Len(board') = Len(board)
           /\ \A x \in 1..Len(board) : x # op'[2] + 1 => board'[x] = board[x]
           /\ Len(board'[op'[2] + 1]) = Len(board[op'[2] + 1]) + 1
           /\ \A y \in 1..Len(board[op'[2] + 1]) :
                  board'[op'[2] + 1][y] = board[op'[2] + 1][y]
           /\ board'[op'[2] + 1][Len(board'[op'[2] + 1])] = turn
           /\ turn' = ~turn)]_vars

\* Player 2 dropped a piece on a column that held pieces, next to a column that
\* holds pieces
C12_Witness ==
    /\ op[1] = "make_move_at_column"
    /\ ret = "True"
    /\ turn = Player1
    /\ Len(board[op[2] + 1]) >= 2
    /\ \E x \in 1..Len(board) : x # op[2] + 1 /\ board[x] # <<>>

-----------------------------------------------------------------------------
(* C13 *)

\* C13: for every column c that make_move_at_column accepts,
\* delete_move_at_column(c) after make_move_at_column(c) returns True and gives
\* back the string get_fen() returned before the move.
C13_MoveThenUndo ==
    \A c \in Cols :
        LET moved == make_move_at_column(board, turn, result, size, connect_num, c)
            undone == delete_move_at_column(moved.board, moved.turn, moved.result, c)
        IN  moved.ret = "True"
                => /\ undone.ret = "True"
                   /\ undone.exc = "none"
                   /\ get_fen(undone.board, undone.turn) = get_fen(board, turn)

\* a move was taken back: the board holds pieces of both players and it is
\* Player 2's turn
C13_Witness ==
    /\ op[1] = "delete_move_at_column"
    /\ ret = "True"
    /\ turn = Player2
    /\ Pieces(board) >= 3

-----------------------------------------------------------------------------
(* C14 *)

\* the columns that hold fewer pieces than there are rows
NotFull(b) == {c \in 0..(size[1] - 1) : Len(b[c + 1]) < size[2]}

\* the list is in ascending order and names exactly the columns of cs
AscendingListOf(list, cs) ==
    /\ \A k \in 1..(Len(list) - 1) : list[k] < list[k + 1]
    /\ {list[k] : k \in 1..Len(list)} = cs

\* C14: all_available_moves() returns, in ascending order, exactly the columns
\* that are not full; make_move_at_column of every column of the list returns
\* True; the list is empty exactly when every column is full.
C14_LegalMovesApply ==
    LET moves == all_available_moves(board, size)
    IN  /\ moves.exc = "none"
        /\ AscendingListOf(moves.val, NotFull(board))
        /\ moves.val = <<>> <=> AllFull(board, size)
        /\ \A k \in 1..Len(moves.val) :
               LET moved == make_move_at_column(board, turn, result, size,
                                                connect_num, moves.val[k])
               IN  moved.ret = "True" /\ moved.exc = "none"

\* the part of C14 that is about the list alone
C14_ListIsNotFullColumns ==
    LET moves == all_available_moves(board, size)
    IN  /\ moves.exc = "none"
        /\ AscendingListOf(moves.val, NotFull(board))
        /\ moves.val = <<>> <=> AllFull(board, size)

-----------------------------------------------------------------------------
(* C15 *)

\* C15: a call of bestmoves on a board with a legal move, whatever the size, the
\* connect_num and the PLY_LIMIT, raises nothing and ends by returning its list.
C15_SearchCompletes ==
    (op[1] = "bestmoves" /\ pc = "idle" /\ LegalColumns(at_call.board) # {})
        => (raised = "none" /\ ret = "list")

-----------------------------------------------------------------------------
(* C16 *)

Scores == -100..100

\* C16: every value a negamax call returned, every value negamax holds as its
\* best, every value bestmoves took and every value in the transposition table
\* lies in [-100, 100].
C16_ValuesBounded ==
    /\ \A k \in 1..Len(stack) :
           /\ stack[k].best_value \in Scores
           /\ stack[k].st = "done" => stack[k].value \in Scores
    /\ \A c \in DOMAIN evals : evals[c] \in Scores
    /\ \A key \in DOMAIN ttable : ttable[key] \in Scores

\* a call made from a negamax loop has returned -100, and the table holds a 100
C16_Witness ==
    /\ Len(stack) >= 2
    /\ stack[Len(stack)].st = "done"
    /\ stack[Len(stack)].value = -100
    /\ \E key \in DOMAIN ttable : ttable[key] = 100

-----------------------------------------------------------------------------
(* C17 *)

\* the digits of one column, bottom first
TokenOf(col) == [k \in 1..Len(col) |-> IF col[k] = Player2 THEN "2" ELSE "1"]

\* the board of the docstring of get_fen, columns 0..6, and its string
ExampleBoard ==
    <<<<Player2>>, <<Player2>>, <<Player2, Player1, Player1>>, <<Player1, Player1>>,
      <<Player2>>, <<Player1, Player2>>, <<Player1>>>>

ExampleFen ==
    <<"1", " ", "1", "2", " ", "2", " ", "1", "1", " ", "2", "1", "1", " ", "2", " ",
      "2", " ", "2">>

\* C17: get_fen() is one token for each column, the rightmost column first, each
\* token the column's pieces bottom to top as '1' and '2' and empty for an empty
\* column, single spaces between the tokens, then a space and the digit of the
\* turn; the documented board gives "1 12 2 11 211 2 2 2".
C17_EncodingShape ==
    LET fen == get_fen(board, turn)
        tokens == Split(fen)
    IN  /\ Len(tokens) = size[1] + 1
        /\ Len(fen) = Pieces(board) + size[1] + 1
        /\ \A k \in 1..size[1] : tokens[k] = TokenOf(board[size[1] - k + 1])
        /\ tokens[size[1] + 1] = <<IF turn = Player2 THEN "2" ELSE "1">>
        /\ get_fen(ExampleBoard, Player2) = ExampleFen

\* get_fen() was taken of a board of three columns whose middle column is empty
\* and whose outer columns differ, the left one holding pieces of both players
C17_Witness ==
    /\ op[1] = "set_position"
    /\ op[2] = get_fen(board, turn)
    /\ Len(board) = 3
    /\ board[2] = <<>>
    /\ board[1] # board[3]
    /\ board[3] # <<>>
    /\ \E j, k \in 1..Len(board[1]) : board[1][j] # board[1][k]

-----------------------------------------------------------------------------
(* C18 *)

\* C18: while bestmoves runs, whenever a negamax call is about to try its next
\* move and whenever it has returned, the string of the board (columns and turn)
\* is the one the board had when that call was made; whenever bestmoves is about
\* to try its next move or to return, it is the one bestmoves was called with.
C18_RestoreDiscipline ==
    pc = "search"
        => IF stack = <<>>
           THEN get_fen(board, turn) = get_fen(at_call.board, at_call.turn)
           ELSE get_fen(board, turn) = stack[Len(stack)].entry

\* a negamax call made from a negamax loop has tried a move, taken its value and
\* is about to try the next
C18_Witness ==
    /\ pc = "search"
    /\ Len(stack) >= 2
    /\ stack[Len(stack)].st = "loop"
    /\ stack[Len(stack)].moves # <<>>
    /\ Len(stack[Len(stack)].moves) < Cardinality(LegalColumns(board))

-----------------------------------------------------------------------------
(* C19 *)

\* C19: no step of any bestmoves call takes a key out of the transposition table
\* or changes the value stored under a key: the table only gains keys, each
\* written once.
C19_TableOnlyGrows ==
    [][\A key \in DOMAIN ttable :
           key \in DOMAIN ttable' /\ ttable'[key] = ttable[key]]_vars

\* in the second call of bestmoves on the engine, a negamax call made from a
\* negamax loop has returned on a position the table holds, the table holding
\* other positions too
C19_Witness ==
    /\ calls = 2
    /\ pc = "search"
    /\ Len(stack) >= 2
    /\ stack[Len(stack)].st = "done"
    /\ stack[Len(stack)].entry \in DOMAIN ttable
    /\ Cardinality(DOMAIN ttable) >= 3

-----------------------------------------------------------------------------
(* C20 *)

\* the greatest of a set of values
Greatest(vs) == CHOOSE v \in vs : \A w \in vs : w <= v

\* negamax with the scoring of engine.py:64-72 and 80, every move of every
\* position tried, nothing cut off and nothing remembered
RECURSIVE ExhaustiveNegamax(_, _, _, _, _)
ExhaustiveNegamax(b, t, r, ply, limit) ==
    IF ply >= limit THEN evaluate_position(r)
    ELSE IF r >= 2 THEN -100
    ELSE IF r = 1 THEN 0
    ELSE LET moves == LegalColumns(b)
             After(c) == make_move_at_column(b, t, r, size, connect_num, c)
             values == {-ExhaustiveNegamax(After(c).board, After(c).turn,
                                           After(c).result, ply + 1, limit) :
                            c \in moves}
         IN  IF moves = {} THEN -100 ELSE Greatest(values)

\* the value of the move c on the board b, as bestmoves takes it
ExhaustiveValue(b, t, r, limit, c) ==
    LET after == make_move_at_column(b, t, r, size, connect_num, c)
    IN  -ExhaustiveNegamax(after.board, after.turn, after.result, 0, limit)

\* the columns an exhaustive search of the same depth returns
ExhaustiveBest(b, t, r, limit) ==
    LET value == [c \in LegalColumns(b) |-> ExhaustiveValue(b, t, r, limit, c)]
    IN  {c \in LegalColumns(b) : \A d \in LegalColumns(b) : value[d] <= value[c]}

\* C20: called on a fresh engine and a board whose result is Ongoing, that holds no
\* run and has a legal move, bestmoves returns the columns the exhaustive search
\* with the same PLY_LIMIT returns.
C20_SameAsExhaustive ==
    (/\ BestmovesReturned
     /\ calls = 1
     /\ at_call.result = Ongoing
     /\ NoRun(at_call.board, connect_num)
     /\ LegalColumns(at_call.board) # {})
        => Returned_Columns = ExhaustiveBest(at_call.board, at_call.turn,
                                             at_call.result, PLY_LIMIT)

-----------------------------------------------------------------------------
(* C21 *)

\* A negamax call run to its end in one piece, from the steps of the search: f is
\* the call as Enter or Continue left it on the board b, t with the table tt.  It
\* makes its next move, runs the call made on it, takes the value on the board
\* restored, and goes on; it yields the value returned and the table left.
RECURSIVE RunCall(_, _, _, _, _, _)
RunCall(f, b, t, r, tt, limit) ==
    IF f.st = "done" THEN [value |-> f.value, tt |-> tt]
    ELSE LET out == make_move_at_column(b, t, r, size, connect_num, Head(f.moves))
             ent == Enter(out.board, out.turn, out.result, size, -f.beta, -f.alpha,
                          f.ply + 1, tt, limit)
             sub == RunCall(ent.frame, out.board, out.turn, out.result, ent.tt, limit)
             next == Continue(Taken(Calling(f, get_fen(b, t)), -sub.value), b, t, sub.tt)
         IN  RunCall(next.frame, b, t, out.result, next.tt, limit)

\* the loop of bestmoves run on an engine whose table is tt: the values of the
\* columns of todo, joined to those of ev
RECURSIVE RunBestmoves(_, _, _, _, _, _, _)
RunBestmoves(moves, ev, b, t, r, tt, limit) ==
    IF moves = <<>> THEN ev
    ELSE LET out == make_move_at_column(b, t, r, size, connect_num, Head(moves))
             ent == Enter(out.board, out.turn, out.result, size, -100, 100, 0, tt, limit)
             sub == RunCall(ent.frame, out.board, out.turn, out.result, ent.tt, limit)
         IN  RunBestmoves(Tail(moves), Put(ev, Head(moves), -sub.value), b, t,
                          out.result, sub.tt, limit)

\* the list bestmoves returns for the board b, t on a fresh engine
FreshBestmoves(b, t, r, limit) ==
    BestOf(RunBestmoves(all_available_moves(b, size).val, EmptyMap, b, t, r,
                        EmptyMap, limit))

\* C21: for the same board and the same PLY_LIMIT, an engine that has answered
\* an earlier bestmoves call returns the list a fresh engine returns.
C21_HistoryIndependent ==
    (BestmovesReturned /\ calls >= 2 /\ LegalColumns(at_call.board) # {})
        => indicies = FreshBestmoves(at_call.board, at_call.turn, at_call.result,
                                     PLY_LIMIT)

\* the first call on an engine returns the list of a fresh engine
C21_FirstCallIsFresh ==
    (BestmovesReturned /\ calls = 1 /\ LegalColumns(at_call.board) # {})
        => indicies = FreshBestmoves(at_call.board, at_call.turn, at_call.result,
                                     PLY_LIMIT)

-----------------------------------------------------------------------------
(* C22 *)

\* C22: in a game from the empty board, by make_move_at_column alone and every
\* move made while the result is Ongoing, the result after a move that dropped a
\* piece is never the win of the player who did not make it.
C22_NoWinForTheOther ==
    [][(Dropped /\ result = Ongoing) => result' # WinOf(~turn)]_vars

\* the same of a move made while nobody owns four in a line: no move gives the
\* win to the player who did not make it unless a line was left unseen before
C22_NoWinForTheOtherWithoutRun ==
    [][(Dropped /\ result = Ongoing /\ NoRun(board, connect_num))
       => result' # WinOf(~turn)]_vars

====
